---- MODULE Spec2Model ----
(***************************************************************************)
(* A model of the TheraBot backend (src/backend): the safety classifier    *)
(* (safety.py), the session store (memory.py) and the chat pipeline        *)
(* (main.py).                                                              *)
(*                                                                         *)
(* Text.  A message is a sequence of tokens; a token is a phrase with a    *)
(* case flag.  str.lower() clears the flag, and `k in text` is true when a *)
(* lower-case token is the phrase k or a phrase that has k inside it       *)
(* (SubstringPairs).  Arabic phrases are written in ASCII transliteration  *)
(* with the prefix ar_; they have no case.                                 *)
(*                                                                         *)
(* Time.  datetime.now() is the variable clock, in hours.                  *)
(***************************************************************************)
EXTENDS Integers, Sequences, FiniteSets, TLC

VARIABLES
    store,      \* the session store: the backend in use, the session records, their
                \* expiry times (Redis TTL) and the message lists, newest first
    clock,      \* datetime.now(), in hours
    task,       \* the request handlers: position, locals, response
    running,    \* the handler that holds the event loop (in-process store), 0 if none
    fnIn,       \* the argument of the function or store call under check
    fnOut       \* its result (<<>> until it is applied)

vars == <<store, clock, task, running, fnIn, fnOut>>

None == "none"

\* Optional values: <<>> is Python's None, <<x>> is x
Some(x) == <<x>>

Min(S) == CHOOSE x \in S : \A y \in S : x <= y

-----------------------------------------------------------------------------
(* safety.py : the keyword tables                                          *)

CrisisCategories == <<"suicide", "self_harm", "abuse", "emergency_health">>

CrisisKeywords(c) ==
    CASE c = "suicide" ->
           <<"ar_intihar", "ar_aqtul_nafsi", "ar_urid_an_amut", "ar_nihayat_hayati",
             "suicide", "kill myself", "want to die", "end my life",
             "ar_la_urid_alaysh", "better off dead", "ar_la_faida_min_alhayat">>
      [] c = "self_harm" ->
           <<"ar_ajrah_nafsi", "ar_udhi_nafsi", "ar_qat", "ar_harq", "self-harm",
             "cut myself", "hurt myself", "bleeding intentionally">>
      [] c = "abuse" ->
           <<"ar_itida", "ar_unf_manzili", "ar_darb", "ar_taharrush", "ar_isaa",
             "abuse", "domestic violence", "beating", "harassment">>
      [] c = "emergency_health" ->
           <<"ar_nawba_qalbiya", "ar_sakta_dimaghiya", "ar_tawaqquf_tanaffus",
             "ar_jurh_nazif", "heart attack", "stroke", "can't breathe",
             "bleeding severely">>

WarningCategories == <<"depression", "anxiety", "addiction">>

WarningPatterns(c) ==
    CASE c = "depression" ->
           <<"ar_muktaib", "ar_hazin_jiddan", "ar_la_mana_lilhayat", "ar_yas",
             "depressed", "very sad", "no meaning", "hopeless">>
      [] c = "anxiety" ->
           <<"ar_qalaq_shadid", "ar_nawbat_hala", "ar_khawf", "ar_ruhab",
             "severe anxiety", "panic attack", "terrified", "phobia">>
      [] c = "addiction" ->
           <<"ar_idman", "ar_mukhaddirat", "ar_kuhul", "ar_la_astati_altawaqquf",
             "addiction", "drugs", "alcohol", "can't stop">>

(* The phrases of the tables that lie inside another phrase of the tables  *)
(* or of the vocabulary: <<k, p>> says k is a proper substring of p.       *)
SubstringPairs ==
    { <<"sad", "very sad">>, <<"ar_hazin", "ar_hazin_jiddan">>,
      <<"ar_qalaq", "ar_qalaq_shadid">>, <<"stroke", "stroked the cat">> }

-----------------------------------------------------------------------------
(* Text                                                                    *)

Tok(p, u) == [text |-> p, upper |-> u]

\* a lower() that leaves the text as it is
LowerKeepsCase(m) == m

\* str.lower()
Lower(m) == [i \in DOMAIN m |-> Tok(m[i].text, FALSE)]

\* k in text, for a lower-case phrase k
Contains(text, k) ==
    \E i \in DOMAIN text :
        /\ ~text[i].upper
        /\ text[i].text = k \/ <<k, text[i].text>> \in SubstringPairs

-----------------------------------------------------------------------------
(* safety.py : SafetyChecker.analyze_message                               *)

\* the index of the first keyword of the list that is in the text, 0 if none
FirstHit(keywords, text) ==
    LET hits == {i \in DOMAIN keywords : Contains(text, keywords[i])}
    IN  IF hits = {} THEN 0 ELSE Min(hits)

\* min(0.9, warning_score * 0.3) in IEEE double arithmetic, as Python prints it
Confidence(score) ==
    CASE score = 0 -> "0.0"
      [] score = 1 -> "0.3"
      [] score = 2 -> "0.6"
      [] score = 3 -> "0.8999999999999999"
      [] OTHER     -> "0.9"

AllWarningPatterns ==
    WarningPatterns("depression") \o WarningPatterns("anxiety")
        \o WarningPatterns("addiction")

SafetyLevelOf(score) ==
    IF score >= 3 THEN "danger" ELSE IF score >= 1 THEN "warning" ELSE "safe"

analyze_message(message) ==
    LET message_lower == Lower(message)
        matching == {c \in DOMAIN CrisisCategories :
                        FirstHit(CrisisKeywords(CrisisCategories[c]), message_lower) # 0}
    IN  IF matching # {}
        THEN LET crisis_type == CrisisCategories[Min(matching)]
                 kws == CrisisKeywords(crisis_type)
             IN  [is_crisis  |-> TRUE,
                  level      |-> "crisis",
                  keywords   |-> << kws[FirstHit(kws, message_lower)] >>,
                  confidence |-> "0.95",
                  crisis_type |-> crisis_type]
        ELSE LET warning_keywords ==
                     SelectSeq(AllWarningPatterns,
                               LAMBDA p : Contains(message_lower, p))
                 warning_score == Len(warning_keywords)
             IN  [is_crisis  |-> FALSE,
                  level      |-> SafetyLevelOf(warning_score),
                  keywords   |-> warning_keywords,
                  confidence |-> Confidence(warning_score),
                  crisis_type |-> None]

-----------------------------------------------------------------------------
(* The messages the classifier is checked on                               *)

MaxTokens == 3

Vocabulary ==
    { Tok("hello", FALSE), Tok("hello", TRUE),
      Tok("suicide", FALSE), Tok("suicide", TRUE),
      Tok("ar_urid_an_amut", FALSE),
      Tok("hurt myself", FALSE), Tok("abuse", TRUE),
      Tok("stroked the cat", FALSE),
      Tok("very sad", FALSE), Tok("hopeless", TRUE),
      Tok("panic attack", FALSE), Tok("ar_khawf", FALSE), Tok("drugs", FALSE) }

Messages == UNION { [1..n -> Vocabulary] : n \in 0..MaxTokens }

-----------------------------------------------------------------------------
(* safety.py : SafetyChecker.get_crisis_response                           *)

\* the categories of the crisis_resources table
BundleCategories == {"suicide", "self_harm", "abuse"}

\* A bundle is named by the table entry it comes from; "default" is the
\* generic hotline message built at the end of get_crisis_response.
Bundle(name) ==
    [message   |-> [kind |-> "crisis_message", of |-> name],
     resources |-> [kind |-> "resources", of |-> name]]

get_crisis_response(safety_result) ==
    LET crisis_type == IF safety_result.crisis_type = None
                       THEN "suicide"     \* metadata.get("crisis_type", "suicide")
                       ELSE safety_result.crisis_type
    IN  IF crisis_type \in BundleCategories
        THEN Bundle(crisis_type)
        ELSE Bundle("default")

-----------------------------------------------------------------------------
(* memory.py : the store                                                   *)

\* timedelta(hours=24) of _save_session
SESSION_TTL == 24

\* ltrim(key, 0, 99) and [:100] of store_message
MAX_MESSAGES == 100

\* the default limit of get_session_history
DEFAULT_LIMIT == 20

\* UserSession(...) of get_or_create_session
NewSession(session_id, user_id, now) ==
    [session_id    |-> session_id,
     user_id       |-> user_id,
     created_at    |-> now,
     last_active   |-> now,
     message_count |-> 0,
     settings      |-> "default"]

\* UserSession.update_activity
update_activity(session, now) ==
    [session EXCEPT !.last_active = now, !.message_count = @ + 1]

\* ChatMessage(...) of store_message; the id stands for uuid4()
ChatMessage(id, session_id, is_user, content, now) ==
    [id         |-> id,
     session_id |-> session_id,
     role       |-> IF is_user THEN "user" ELSE "assistant",
     content    |-> content,
     timestamp  |-> now]

\* get_session: redis GET (an expired key is gone) or dict.get
StoreGet(st, session_id) == st.sessions[session_id]

\* _save_session: redis SETEX with the 24 hour TTL, or a dict assignment
StoreSave(st, session, now) ==
    IF st.backend = "redis"
    THEN [st EXCEPT !.sessions[session.session_id] = Some(session),
                    !.expireAt[session.session_id] = now + SESSION_TTL]
    ELSE [st EXCEPT !.sessions[session.session_id] = Some(session)]

\* redis LPUSH, or list.insert(0, m)
StorePush(st, session_id, m) ==
    [st EXCEPT !.messages[session_id] = <<m>> \o @]

\* a store_message that never trims
StoreTrimNothing(st, session_id) == st

\* redis LTRIM key 0 99, or the slice [:100]
StoreTrim(st, session_id) ==
    [st EXCEPT !.messages[session_id] =
        IF Len(@) > MAX_MESSAGES THEN SubSeq(@, 1, MAX_MESSAGES) ELSE @]

\* Redis key expiry as the clock reaches `now`: a session key whose TTL has
\* run out is removed.  The message lists carry no TTL, and the in-process
\* store has no expiry (cleanup_old_sessions is empty).
Expire(st, now) ==
    IF st.backend = "redis"
    THEN [st EXCEPT !.sessions =
            [id \in DOMAIN @ |->
                IF @[id] # <<>> /\ st.expireAt[id] <= now THEN <<>> ELSE @[id]]]
    ELSE st

\* datetime.isoformat(): a fixed-width string, here the two decimal digits of
\* the hour count
IsoFormat(t) == << t \div 10, t % 10 >>

\* the order of Python's str on two isoformat strings: a <= b
StrLeq(a, b) ==
    \/ a = b
    \/ \E i \in 1..Len(a) :
          /\ i <= Len(b)
          /\ \A j \in 1..(i - 1) : a[j] = b[j]
          /\ a[i] < b[i]
    \/ Len(a) < Len(b) /\ \A j \in 1..Len(a) : a[j] = b[j]

\* ChatMessage.to_dict (the json stored in Redis holds the same dictionary)
to_dict(m) == [m EXCEPT !.timestamp = IsoFormat(@)]

\* redis LRANGE key 0 stop: stop is inclusive, a negative stop counts from
\* the end of the list
LRange(list, stop) ==
    LET last == IF stop < 0 THEN Len(list) + stop ELSE stop
        n    == IF last + 1 > Len(list) THEN Len(list) ELSE last + 1
    IN  IF n <= 0 THEN <<>> ELSE SubSeq(list, 1, n)

\* the Python slice list[:limit]
Slice(list, limit) ==
    LET n == IF limit < 0 THEN Len(list) + limit
             ELSE IF limit > Len(list) THEN Len(list) ELSE limit
    IN  IF n <= 0 THEN <<>> ELSE SubSeq(list, 1, n)

\* sorted(messages, key=lambda x: x["timestamp"]): a stable sort.  The
\* entries with the smallest key come first, in the order they have in s,
\* then those with the next key, and so on.
RECURSIVE SortedByKeys(_, _)
SortedByKeys(s, keys) ==
    IF keys = {} THEN <<>>
    ELSE LET k == CHOOSE x \in keys : \A y \in keys : StrLeq(x, y)
         IN  SelectSeq(s, LAMBDA m : m.timestamp = k) \o SortedByKeys(s, keys \ {k})

SortedByTimestamp(s) == SortedByKeys(s, {s[i].timestamp : i \in DOMAIN s})

\* get_session_history
get_session_history(st, session_id, limit) ==
    LET window == IF st.backend = "redis"
                  THEN LRange(st.messages[session_id], limit - 1)
                  ELSE Slice(st.messages[session_id], limit)
    IN  SortedByTimestamp([i \in DOMAIN window |-> to_dict(window[i])])

-----------------------------------------------------------------------------
(* therapist.py : TherapistEngine                                          *)

\* the number of whitespace-separated words of a phrase
PhraseWords(p) ==
    CASE p \in {"hurt myself", "very sad", "panic attack"} -> 2
      [] p \in {"stroked the cat", "ar_urid_an_amut"} -> 3
      [] p = "a long story of eleven words told to fill the message" -> 11
      [] OTHER -> 1

\* len(user_message.split())
RECURSIVE WordCount(_)
WordCount(m) ==
    IF m = <<>> THEN 0 ELSE PhraseWords(Head(m).text) + WordCount(Tail(m))

negative_words == <<"ar_hazin", "ar_qalaq", "ar_khawf", "sad", "anxious", "afraid">>

\* a style drawn from the four for every SAFE message, whatever the history
StyleChoicesAnyHistory(level, chat_history) ==
    IF level \in {"crisis", "danger"} THEN {"supportive"}
    ELSE IF level = "warning" THEN {"supportive", "cbt"}
    ELSE {"supportive", "cbt", "solution_focused", "mindfulness"}

\* the values random.choice / random.choices can return in _determine_therapy_style
StyleChoices(level, chat_history) ==
    IF level \in {"crisis", "danger"} THEN {"supportive"}
    ELSE IF level = "warning" THEN {"supportive", "cbt"}
    ELSE IF Len(chat_history) > 5
         THEN {"supportive", "cbt", "solution_focused", "mindfulness"}
         ELSE {"supportive"}

\* list(dict.fromkeys(components)): first occurrences, in order
RECURSIVE Dedup(_)
Dedup(s) ==
    IF s = <<>> THEN <<>>
    ELSE LET front == Dedup(SubSeq(s, 1, Len(s) - 1))
             x     == s[Len(s)]
         IN  IF \E i \in DOMAIN front : front[i] = x THEN front ELSE Append(front, x)

\* a selection without the cut to 3
SelectUncut(user_message, level, therapy_style) ==
    LET c1 == IF level # "safe" THEN <<"empathy">> ELSE <<>>
        c2 == IF \E i \in DOMAIN negative_words :
                    Contains(Lower(user_message), negative_words[i])
              THEN Append(c1, "validation") ELSE c1
        c3 == IF WordCount(user_message) > 10 THEN Append(c2, "exploration") ELSE c2
        c4 == CASE therapy_style = "cbt" -> Append(c3, "reframing")
                [] therapy_style = "solution_focused" -> c3 \o <<"exploration", "hope">>
                [] therapy_style = "mindfulness" -> Append(c3, "coping")
                [] OTHER -> c3
    IN  Dedup(IF c4 = <<>> THEN <<"empathy", "exploration">> ELSE c4)

select_response_components(user_message, level, therapy_style) ==
    LET c1 == IF level # "safe" THEN <<"empathy">> ELSE <<>>
        c2 == IF \E i \in DOMAIN negative_words :
                    Contains(Lower(user_message), negative_words[i])
              THEN Append(c1, "validation") ELSE c1
        c3 == IF WordCount(user_message) > 10 THEN Append(c2, "exploration") ELSE c2
        c4 == CASE therapy_style = "cbt" -> Append(c3, "reframing")
                [] therapy_style = "solution_focused" -> c3 \o <<"exploration", "hope">>
                [] therapy_style = "mindfulness" -> Append(c3, "coping")
                [] OTHER -> c3
        c5 == IF c4 = <<>> THEN <<"empathy", "exploration">> ELSE c4
        unique_components == Dedup(c5)
    IN  IF Len(unique_components) > 3 THEN SubSeq(unique_components, 1, 3)
        ELSE unique_components

\* a disclaimer that does not look at the level
DisclaimerAlwaysReferral(level) == "professional_referral"

\* _add_safety_disclaimer
add_safety_disclaimer(level) ==
    CASE level = "danger"  -> "professional_referral"
      [] level = "warning" -> "soft_reminder"
      [] OTHER -> ""

\* generate_response for a drawn style.  The text is kept as the list of the
\* components whose templates it is built from, followed by the disclaimer;
\* which template and connector random.choice picks is left out.
generate_response(user_message, safety_context, chat_history, therapy_style) ==
    LET response_components ==
            select_response_components(user_message, safety_context.level, therapy_style)
    IN  [message |-> [kind |-> "therapy",
                      parts |-> response_components,
                      disclaimer |-> IF safety_context.level \in {"warning", "danger"}
                                     THEN add_safety_disclaimer(safety_context.level)
                                     ELSE ""],
         therapy_style |-> therapy_style,
         safety_level  |-> safety_context.level,
         response_components |-> response_components]

-----------------------------------------------------------------------------
(* main.py : chat_endpoint, one handler per request                        *)
(*                                                                         *)
(* With the Redis backend a handler is a sequence of Redis commands, and   *)
(* handlers of different worker processes interleave between commands.     *)
(* With the in-process store a handler has no await in it: the event loop  *)
(* runs it to its end before it starts another (running).  A computation   *)
(* between two commands, datetime.now() included, is done in the step of   *)
(* the command before it.                                                  *)

MaxTasks == 2
MaxTick == 1
MaxSleeps == 1

Tasks == 1..MaxTasks

\* the session ids clients send, and uuid.uuid4() of a request without one
ClientIds == {0}
uuid4(t) == t
SessionIds == ClientIds \cup {uuid4(t) : t \in Tasks}

CrisisMessage == << Tok("hello", FALSE), Tok("suicide", TRUE) >>
SafeMessage   == << Tok("hello", FALSE) >>
RequestMessages == {CrisisMessage, SafeMessage}

NoResponse ==
    [kind |-> "none", message |-> <<>>, is_crisis |-> FALSE,
     safety_level |-> "", crisis_resources |-> <<>>]

\* HTTPException(status_code=500) of the except clause
ErrorResponse ==
    [kind |-> "error", message |-> <<>>, is_crisis |-> FALSE,
     safety_level |-> "", crisis_resources |-> <<>>]

\* ChatResponseModel(...)
ChatResponseModel(message, is_crisis, safety_level, crisis_resources) ==
    [kind |-> "ok", message |-> Some(message), is_crisis |-> is_crisis,
     safety_level |-> safety_level, crisis_resources |-> crisis_resources]

IdleTask ==
    [pc |-> "idle", message |-> <<>>, session_id |-> 0, session |-> <<>>,
     verdict |-> <<>>, cm |-> <<>>, phase |-> "", bundle |-> <<>>,
     chat_history |-> <<>>, reply |-> <<>>, composer |-> 0,
     response |-> NoResponse,
     \* what the handler has done so far: the calls it has entered, the
     \* messages it has pushed, the store_message calls that have returned,
     \* and whether it has saved a session of its own making
     calls |-> <<>>, pushed |-> <<>>, stored |-> 0, created |-> FALSE]

\* the positions at which the next step is a Redis command
RedisPcs == {"goc_get", "goc_save", "sm_push", "sm_trim", "sm_get", "sm_save",
             "hist", "touch_get", "touch_save"}

\* MemoryManager.__init__: Redis answers the ping, or the in-process store
EmptyStore(backend) ==
    [backend  |-> backend,
     sessions |-> [id \in SessionIds |-> <<>>],
     expireAt |-> [id \in SessionIds |-> 0],
     messages |-> [id \in SessionIds |-> <<>>]]

Init ==
    /\ store \in {EmptyStore("redis"), EmptyStore("memory")}
    /\ clock = 0
    /\ task = [t \in Tasks |-> IdleTask]
    /\ running = 0
    /\ fnIn = <<>>
    /\ fnOut = <<>>

\* a handler may take a step
MayRun(t) == store.backend = "redis" \/ running \in {0, t}

\* the handler has returned: its locals are gone; what is kept is what the
\* caller and the properties look at
Returned(tk) ==
    [tk EXCEPT !.session = <<>>, !.cm = <<>>, !.phase = "", !.bundle = <<>>,
               !.chat_history = <<>>, !.reply = <<>>]

\* the step of handler t that leaves it as `tk` and the store as `st`
Step(t, tk, st) ==
    /\ task' = [task EXCEPT ![t] = IF tk.pc = "done" THEN Returned(tk) ELSE tk]
    /\ store' = st
    /\ running' = IF store.backend = "memory" /\ tk.pc # "done" THEN t ELSE 0
    /\ UNCHANGED <<clock, fnIn, fnOut>>

\* control enters store_message: the ChatMessage is built
EnterStore(tk, t, phase, content, calls) ==
    [tk EXCEPT !.pc = "sm_push",
               !.phase = phase,
               !.cm = Some(ChatMessage(<<t, phase>>, tk.session_id, phase = "user",
                                       content, clock)),
               !.calls = @ \o calls \o <<"store_message">>]

\* a pipeline that tests for crisis before it stores the user message
AfterGetOrCreateBranchFirst(tk, t) ==
    LET verdict == analyze_message(tk.message)
    IN  IF verdict.is_crisis
        THEN EnterStore([tk EXCEPT !.verdict = Some(verdict),
                                   !.bundle = Some(get_crisis_response(verdict))],
                        t, "crisis", get_crisis_response(verdict).message,
                        <<"analyze_message", "get_crisis_response">>)
        ELSE EnterStore([tk EXCEPT !.verdict = Some(verdict)],
                        t, "user", [kind |-> "user_text", body |-> tk.message],
                        <<"analyze_message">>)

\* get_or_create_session has returned: analyze_message, then store_message
AfterGetOrCreate(tk, t) ==
    EnterStore([tk EXCEPT !.verdict = Some(analyze_message(tk.message))],
               t, "user", [kind |-> "user_text", body |-> tk.message],
               <<"analyze_message">>)

\* a pipeline without the crisis test: every message goes on to generation
AfterStoreNoCrisisTest(tk, t) ==
    CASE tk.phase = "user" ->
           [tk EXCEPT !.pc = "hist",
                      !.stored = @ + 1,
                      !.calls = Append(@, "get_session_history")]
      [] tk.phase = "reply" ->
           [tk EXCEPT !.pc = "touch_get",
                      !.stored = @ + 1,
                      !.calls = Append(@, "update_session_activity")]

\* store_message has returned
AfterStore(tk, t) ==
    CASE tk.phase = "user" ->
           IF tk.verdict[1].is_crisis
           THEN LET crisis_response == get_crisis_response(tk.verdict[1])
                IN  EnterStore([tk EXCEPT !.bundle = Some(crisis_response),
                                          !.stored = @ + 1],
                               t, "crisis", crisis_response.message,
                               <<"get_crisis_response">>)
           ELSE [tk EXCEPT !.pc = "hist",
                           !.stored = @ + 1,
                           !.calls = Append(@, "get_session_history")]
      [] tk.phase = "crisis" ->
           [tk EXCEPT !.pc = "done",
                      !.stored = @ + 1,
                      !.response = ChatResponseModel(tk.bundle[1].message, TRUE,
                                       "critical", Some(tk.bundle[1].resources))]
      [] tk.phase = "reply" ->
           [tk EXCEPT !.pc = "touch_get",
                      !.stored = @ + 1,
                      !.calls = Append(@, "update_session_activity")]

\* update_session_activity has returned: the response of the non-crisis branch
AfterTouch(tk) ==
    [tk EXCEPT !.pc = "done",
               !.response = ChatResponseModel(tk.reply[1].message, FALSE,
                                              tk.verdict[1].level, <<>>)]

Start(t) ==
    /\ task[t].pc = "idle"
    /\ MayRun(t)
    /\ \E m \in RequestMessages, s \in {<<>>} \cup {Some(c) : c \in ClientIds} :
          Step(t, [task[t] EXCEPT !.pc = "goc_get",
                                  !.message = m,
                                  !.session_id = IF s = <<>> THEN uuid4(t) ELSE s[1],
                                  !.calls = <<"get_or_create_session">>],
               store)

\* get_or_create_session: get_session
GocGet(t) ==
    /\ task[t].pc = "goc_get"
    /\ MayRun(t)
    /\ LET session == StoreGet(store, task[t].session_id)
       IN  IF session # <<>>
           THEN Step(t, AfterGetOrCreate([task[t] EXCEPT !.session = session], t), store)
           ELSE Step(t, [task[t] EXCEPT !.pc = "goc_save",
                            !.session = Some(NewSession(task[t].session_id, None, clock))],
                     store)

\* get_or_create_session: _save_session
GocSave(t) ==
    /\ task[t].pc = "goc_save"
    /\ MayRun(t)
    /\ Step(t, AfterGetOrCreate([task[t] EXCEPT !.created = TRUE], t),
            StoreSave(store, task[t].session[1], clock))

\* store_message: lpush / insert(0, ...)
SmPush(t) ==
    /\ task[t].pc = "sm_push"
    /\ MayRun(t)
    /\ Step(t, [task[t] EXCEPT !.pc = "sm_trim",
                            !.pushed = Append(@, [role |-> task[t].cm[1].role,
                                             content |-> task[t].cm[1].content])],
            StorePush(store, task[t].session_id, task[t].cm[1]))

\* store_message: ltrim / [:100]
SmTrim(t) ==
    /\ task[t].pc = "sm_trim"
    /\ MayRun(t)
    /\ Step(t, [task[t] EXCEPT !.pc = "sm_get"], StoreTrim(store, task[t].session_id))

\* store_message: get_session and update_activity.  The in-process store
\* hands out the stored object itself, so the update is in the store at once.
SmGet(t) ==
    /\ task[t].pc = "sm_get"
    /\ MayRun(t)
    /\ LET session == StoreGet(store, task[t].session_id)
       IN  IF session = <<>>
           THEN Step(t, AfterStore([task[t] EXCEPT !.session = <<>>], t), store)
           ELSE LET updated == update_activity(session[1], clock)
                IN  Step(t, [task[t] EXCEPT !.pc = "sm_save", !.session = Some(updated)],
                         IF store.backend = "memory"
                         THEN StoreSave(store, updated, clock) ELSE store)

\* store_message: _save_session
SmSave(t) ==
    /\ task[t].pc = "sm_save"
    /\ MayRun(t)
    /\ Step(t, AfterStore(task[t], t), StoreSave(store, task[t].session[1], clock))

\* get_session_history, generate_response, and the ChatMessage of the reply
Hist(t) ==
    /\ task[t].pc = "hist"
    /\ MayRun(t)
    /\ LET chat_history == get_session_history(store, task[t].session_id, DEFAULT_LIMIT)
       IN  \E style \in StyleChoices(task[t].verdict[1].level, chat_history) :
              LET reply == generate_response(task[t].message, task[t].verdict[1],
                                             chat_history, style)
              IN  Step(t, EnterStore([task[t] EXCEPT !.chat_history = chat_history,
                                                     !.reply = Some(reply),
                                                     !.composer = @ + 1],
                                     t, "reply", reply.message, <<"generate_response">>),
                       store)

\* update_session_activity: get_session and the new last_active
TouchGet(t) ==
    /\ task[t].pc = "touch_get"
    /\ MayRun(t)
    /\ LET session == StoreGet(store, task[t].session_id)
       IN  IF session = <<>>
           THEN Step(t, AfterTouch([task[t] EXCEPT !.session = <<>>]), store)
           ELSE LET updated == [session[1] EXCEPT !.last_active = clock]
                IN  Step(t, [task[t] EXCEPT !.pc = "touch_save", !.session = Some(updated)],
                         IF store.backend = "memory"
                         THEN StoreSave(store, updated, clock) ELSE store)

\* update_session_activity: _save_session
TouchSave(t) ==
    /\ task[t].pc = "touch_save"
    /\ MayRun(t)
    /\ Step(t, AfterTouch(task[t]), StoreSave(store, task[t].session[1], clock))

\* an except clause that undoes the appends of the failed request
FailRollsBack(t) ==
    /\ store.backend = "redis"
    /\ task[t].pc \in RedisPcs
    /\ Step(t, [task[t] EXCEPT !.pc = "done", !.response = ErrorResponse],
            [store EXCEPT !.messages[task[t].session_id] =
                SelectSeq(@, LAMBDA m : m.id[1] # t)])

\* a Redis command raises (the server is unreachable): the except clause of
\* chat_endpoint turns it into HTTPException(500)
Fail(t) ==
    /\ store.backend = "redis"
    /\ task[t].pc \in RedisPcs
    /\ Step(t, [task[t] EXCEPT !.pc = "done", !.response = ErrorResponse], store)

\* no handler is between its first and its last step
Quiescent == \A t \in Tasks : task[t].pc \in {"idle", "done"}

\* time passes: an hour, or the 24 hours of the session TTL (a handler
\* takes far less than that: socket timeouts are seconds)
Tick ==
    /\ clock < MaxTick
    /\ clock' = clock + 1
    /\ store' = Expire(store, clock')
    /\ UNCHANGED <<task, running, fnIn, fnOut>>

Sleep ==
    /\ Quiescent
    /\ clock + SESSION_TTL < (MaxSleeps + 1) * SESSION_TTL
    /\ clock' = clock + SESSION_TTL
    /\ store' = Expire(store, clock')
    /\ UNCHANGED <<task, running, fnIn, fnOut>>

Next ==
    \/ \E t \in Tasks :
          \/ Start(t) \/ GocGet(t) \/ GocSave(t)
          \/ SmPush(t) \/ SmTrim(t) \/ SmGet(t) \/ SmSave(t)
          \/ Hist(t) \/ TouchGet(t) \/ TouchSave(t)
          \/ Fail(t)
    \/ Tick
    \/ Sleep

Spec == Init /\ [][Next]_vars

-----------------------------------------------------------------------------
(* memory.py : the store driven by one caller, call after call             *)

MaxAppends == 150

\* the clock ticks only between the first calls
MaxTickAppends == 3

\* the limits get_session_history is called with
Limits == {0, 1, DEFAULT_LIMIT, MAX_MESSAGES}

\* the session the caller works on
TheSession == CHOOSE c \in ClientIds : TRUE

\* get_or_create_session, as one call
get_or_create_session(st, session_id, now) ==
    IF StoreGet(st, session_id) # <<>> THEN st
    ELSE StoreSave(st, NewSession(session_id, None, now), now)

\* store_message, as one call
store_message(st, session_id, id, is_user, content, now) ==
    LET pushed  == StoreTrim(StorePush(st, session_id,
                       ChatMessage(id, session_id, is_user, content, now)), session_id)
        session == StoreGet(pushed, session_id)
    IN  IF session = <<>> THEN pushed
        ELSE StoreSave(pushed, update_activity(session[1], now), now)

\* fnIn counts the store_message calls made so far
InitLog ==
    /\ store \in {EmptyStore("redis"), EmptyStore("memory")}
    /\ clock = 0
    /\ task = [t \in Tasks |-> IdleTask]
    /\ running = 0
    /\ fnIn = 0
    /\ fnOut = <<>>

CallGetOrCreate ==
    /\ fnIn = 0
    /\ StoreGet(store, TheSession) = <<>>
    /\ store' = get_or_create_session(store, TheSession, clock)
    /\ UNCHANGED <<clock, task, running, fnIn, fnOut>>

CallStoreMessage ==
    /\ fnIn < MaxAppends
    /\ StoreGet(store, TheSession) # <<>>
    /\ fnIn' = fnIn + 1
    /\ store' = store_message(store, TheSession, <<0, fnIn + 1>>, fnIn % 2 = 0,
                              [kind |-> "user_text", body |-> SafeMessage], clock)
    /\ fnOut' = <<>>
    /\ UNCHANGED <<clock, task, running>>

CallGetHistory ==
    /\ fnOut = <<>>
    /\ \E limit \in Limits :
          fnOut' = Some([limit |-> limit,
                         result |-> get_session_history(store, TheSession, limit)])
    /\ UNCHANGED <<store, clock, task, running, fnIn>>

LogTick ==
    /\ clock < MaxTick
    /\ fnIn <= MaxTickAppends
    /\ clock' = clock + 1
    /\ store' = Expire(store, clock')
    /\ UNCHANGED <<task, running, fnIn, fnOut>>

NextLog == CallGetOrCreate \/ CallStoreMessage \/ CallGetHistory \/ LogTick

SpecLog == InitLog /\ [][NextLog]_vars

-----------------------------------------------------------------------------
(* safety.py : analyze_message applied to one message                      *)

InitClassify ==
    /\ store = EmptyStore("memory")
    /\ clock = 0
    /\ task = [t \in Tasks |-> IdleTask]
    /\ running = 0
    /\ fnIn \in Messages
    /\ fnOut = <<>>

Classify ==
    /\ fnOut = <<>>
    /\ fnOut' = Some(analyze_message(fnIn))
    /\ UNCHANGED <<store, clock, task, running, fnIn>>

SpecClassify == InitClassify /\ [][Classify]_vars

-----------------------------------------------------------------------------
(* Properties of the classifier                                            *)

\* phrase k occurs in message m, whatever the case of the letters
OccursIn(m, k) ==
    \E i \in DOMAIN m : m[i].text = k \/ <<k, m[i].text>> \in SubstringPairs

\* the crisis categories that have a keyword in m, as places in the declaration
CrisisPlaces(m) ==
    {c \in DOMAIN CrisisCategories :
        \E i \in DOMAIN CrisisKeywords(CrisisCategories[c]) :
            OccursIn(m, CrisisKeywords(CrisisCategories[c])[i])}

WarningHits(m) ==
    {i \in DOMAIN AllWarningPatterns : OccursIn(m, AllWarningPatterns[i])}

\* C2: a message that contains a crisis keyword, in any case and with any
\* number of warning patterns, is classified is_crisis, CRISIS, 0.95, with the
\* first category of the declaration that has a keyword in the message.
C2_CrisisVerdict ==
    (fnOut # <<>> /\ CrisisPlaces(fnIn) # {}) =>
        /\ fnOut[1].is_crisis
        /\ fnOut[1].level = "crisis"
        /\ fnOut[1].confidence = "0.95"
        /\ fnOut[1].crisis_type = CrisisCategories[Min(CrisisPlaces(fnIn))]

\* C2 witness: an upper-case keyword of a later category, a keyword of an
\* earlier one and a warning pattern; the earlier category is reported.
C2_Witness ==
    /\ fnOut # <<>>
    /\ \E i \in DOMAIN fnIn : fnIn[i].upper /\ fnIn[i].text = "abuse"
    /\ Cardinality(CrisisPlaces(fnIn)) >= 2
    /\ WarningHits(fnIn) # {}
    /\ fnOut[1].is_crisis
    /\ fnOut[1].crisis_type = "self_harm"

-----------------------------------------------------------------------------
(* Properties of the chat pipeline                                         *)

Classified(t) == task[t].verdict # <<>>
CrisisRun(t) == Classified(t) /\ task[t].verdict[1].is_crisis
Completed(t) == task[t].pc = "done" /\ task[t].response.kind = "ok"

\* the bundle the tables give for a category
BundleOf(category) ==
    IF category \in {"suicide", "self_harm", "abuse"}
    THEN Bundle(category) ELSE Bundle("default")

IsCrisisBundleResponse(r, category) ==
    /\ r.kind = "ok"
    /\ r.is_crisis
    /\ r.safety_level = "critical"
    /\ r.message = Some(BundleOf(category).message)
    /\ r.crisis_resources = Some(BundleOf(category).resources)

\* C1: a request whose message got a crisis verdict never invokes
\* generate_response, and the response it returns is the crisis bundle.
C1_CrisisShortCircuit ==
    \A t \in Tasks :
        CrisisRun(t) =>
            /\ task[t].composer = 0
            /\ \A i \in DOMAIN task[t].calls : task[t].calls[i] # "generate_response"
            /\ Completed(t) =>
                   IsCrisisBundleResponse(task[t].response, task[t].verdict[1].crisis_type)

\* C1 witness: a crisis request has returned its bundle
C1_Witness ==
    \E t \in Tasks :
        /\ CrisisRun(t)
        /\ Completed(t)
        /\ task[t].response.is_crisis
        /\ task[t].composer = 0

\* C3: a request whose message was classified as crisis returns the crisis
\* bundle, whatever goes wrong later in the request.
C3_CrisisNeverWithheld ==
    \A t \in Tasks :
        (CrisisRun(t) /\ task[t].pc = "done") =>
            IsCrisisBundleResponse(task[t].response, task[t].verdict[1].crisis_type)

CrisisCalls ==
    <<"get_or_create_session", "analyze_message", "store_message",
      "get_crisis_response", "store_message">>

TherapyCalls ==
    <<"get_or_create_session", "analyze_message", "store_message",
      "get_session_history", "generate_response", "store_message",
      "update_session_activity">>

IsPrefix(a, b) == Len(a) <= Len(b) /\ \A i \in DOMAIN a : a[i] = b[i]

\* C4: the calls of a run are made in the order get_or_create_session,
\* analyze_message, store_message(user), then the branch; a completed run
\* has pushed one USER message and then one ASSISTANT message (the bundle
\* text, or the composed text), and the non-crisis branch ends with
\* update_session_activity.
C4_PipelineOrder ==
    \A t \in Tasks :
        /\ IsPrefix(task[t].calls, CrisisCalls) \/ IsPrefix(task[t].calls, TherapyCalls)
        /\ Len(task[t].calls) > 3 =>
               IF task[t].verdict[1].is_crisis
               THEN IsPrefix(task[t].calls, CrisisCalls)
               ELSE IsPrefix(task[t].calls, TherapyCalls)
        /\ task[t].pushed # <<>> =>
               /\ Len(task[t].calls) >= 3
               /\ task[t].pushed[1].role = "user"
               /\ task[t].pushed[1].content.kind = "user_text"
               /\ task[t].pushed[1].content.body = task[t].message
        /\ Completed(t) =>
               /\ task[t].calls = IF task[t].verdict[1].is_crisis
                                  THEN CrisisCalls ELSE TherapyCalls
               /\ Len(task[t].pushed) = 2
               /\ task[t].pushed[2].role = "assistant"
               /\ task[t].pushed[2].content.kind =
                      IF task[t].verdict[1].is_crisis THEN "crisis_message" ELSE "therapy"
               /\ task[t].response.message = Some(task[t].pushed[2].content)

\* C4 witness: a crisis run and a non-crisis run have both completed
C4_Witness ==
    \E t, u \in Tasks :
        /\ Completed(t) /\ task[t].verdict[1].is_crisis
        /\ Completed(u) /\ ~task[u].verdict[1].is_crisis
        /\ task[u].calls = TherapyCalls

-----------------------------------------------------------------------------
(* Properties of the message log (one caller)                              *)

TheLog == store.messages[TheSession]

\* the ids of the k most recent of n appended messages
MostRecentIds(n, k) == {<<0, j>> : j \in (IF n > k THEN n - k + 1 ELSE 1)..n}

IdsOf(s) == {s[i].id : i \in DOMAIN s}

\* C5: after any number of store_message calls the log holds at most 100
\* entries, the most recently appended ones, newest first; no history
\* holds any of the earliest n - 100 messages, and the history of limit 100
\* is the 100 most recent.
C5_LogBounded ==
    /\ Len(TheLog) <= MAX_MESSAGES
    /\ Len(TheLog) = Min({fnIn, MAX_MESSAGES})
    /\ \A i \in DOMAIN TheLog : TheLog[i].id = <<0, fnIn - i + 1>>
    /\ fnOut # <<>> =>
          /\ \A i \in DOMAIN fnOut[1].result :
                 fnOut[1].result[i].id[2] > fnIn - MAX_MESSAGES
          /\ fnOut[1].limit = MAX_MESSAGES =>
                 IdsOf(fnOut[1].result) = MostRecentIds(fnIn, MAX_MESSAGES)

\* C5 witness: 150 messages appended, and the history of limit 100 read
C5_Witness ==
    /\ fnIn = 150
    /\ fnOut # <<>>
    /\ fnOut[1].limit = MAX_MESSAGES
    /\ Len(fnOut[1].result) = MAX_MESSAGES
    /\ \A i \in DOMAIN fnOut[1].result : fnOut[1].result[i].id[2] > 50

NonDecreasing(r) ==
    \A i, j \in DOMAIN r : i < j => StrLeq(r[i].timestamp, r[j].timestamp)

\* C6: get_session_history(id, limit) returns min(limit, log length)
\* messages, the most recently appended ones, in non-decreasing order of
\* timestamp.
C6_History ==
    fnOut # <<>> =>
        /\ Len(fnOut[1].result) = Min({fnOut[1].limit, Len(TheLog)})
        /\ IdsOf(fnOut[1].result) = MostRecentIds(fnIn, Len(fnOut[1].result))
        /\ NonDecreasing(fnOut[1].result)

\* the same for the limits from 1 on
C6_HistoryPositiveLimit ==
    (fnOut # <<>> /\ fnOut[1].limit >= 1) =>
        /\ Len(fnOut[1].result) = Min({fnOut[1].limit, Len(TheLog)})
        /\ IdsOf(fnOut[1].result) = MostRecentIds(fnIn, Len(fnOut[1].result))
        /\ NonDecreasing(fnOut[1].result)

-----------------------------------------------------------------------------
(* Properties of the session store under concurrent requests and expiry    *)

\* the handlers working on session id s
TasksOn(s) == {t \in Tasks : task[t].pc # "idle" /\ task[t].session_id = s}

RECURSIVE SumStored(_)
SumStored(T) ==
    IF T = {} THEN 0
    ELSE LET t == CHOOSE x \in T : TRUE IN task[t].stored + SumStored(T \ {t})

\* no session can have expired yet
BeforeAnyExpiry == clock < SESSION_TTL

\* C7: of the requests that come for the same unseen session id, one
\* creates the session; no second creation is saved over it.
C7_OneCreation ==
    BeforeAnyExpiry =>
        \A t, u \in Tasks :
            (t # u /\ task[t].session_id = task[u].session_id) =>
                ~(task[t].created /\ task[u].created)

\* C8: once the store_message calls on a session (created once) have all
\* completed, message_count is their number and last_active is not earlier
\* than the timestamp of any of their messages.
C8_NoLostUpdate ==
    (Quiescent /\ BeforeAnyExpiry) =>
        \A s \in SessionIds :
            ( /\ store.sessions[s] # <<>>
              /\ Cardinality({t \in TasksOn(s) : task[t].created}) = 1
              /\ \A t \in TasksOn(s) : Completed(t) ) =>
                /\ store.sessions[s][1].message_count = SumStored(TasksOn(s))
                /\ \A i \in DOMAIN store.messages[s] :
                       store.sessions[s][1].last_active >= store.messages[s][i].timestamp

\* get_or_create_session has just returned to handler t
GotSession(t) == task[t].pc = "sm_push" /\ task[t].phase = "user"

\* C9: the session get_or_create_session returns was active within the last
\* 24 hours (a session left alone for longer is replaced by a fresh one),
\* with either backend.
C9_StaleSessionReplaced ==
    \A t \in Tasks :
        GotSession(t) =>
            task[t].cm[1].timestamp - task[t].session[1].last_active <= SESSION_TTL

\* get_session_history has just returned to handler t
GotHistory(t) == task[t].pc = "sm_push" /\ task[t].phase = "reply"

FromIso(d) == d[1] * 10 + d[2]

\* the number of 24 hour pauses before time x (the clock jumps only while
\* no request is in progress, so every session is left alone in a pause)
Pauses(x) == x \div SESSION_TTL

\* C10: a history holds no message appended before a pause of 24 hours in
\* which the session was left alone.
C10_ExpiredInvisible ==
    \A t \in Tasks :
        GotHistory(t) =>
            \A i \in DOMAIN task[t].chat_history :
                Pauses(FromIso(task[t].chat_history[i].timestamp))
                    = Pauses(task[t].cm[1].timestamp)

-----------------------------------------------------------------------------
(* memory.py : the same calls made to a Redis backed MemoryManager and to  *)
(* one on the in-process store, side by side under one clock.  Here store  *)
(* holds the two stores, fnIn counts the calls and fnOut is the last call: *)
(* its arguments, the two stores before and after it, and the two results. *)

MaxCalls == 4

Backends == {"redis", "memory"}

\* a touch that counts as a message: update_activity in place of the assignment
TouchCountsMessage(st, session_id, now) ==
    LET session == StoreGet(st, session_id)
    IN  IF session = <<>> THEN st
        ELSE StoreSave(st, update_activity(session[1], now), now)

\* update_session_activity, as one call
update_session_activity(st, session_id, now) ==
    LET session == StoreGet(st, session_id)
    IN  IF session = <<>> THEN st
        ELSE StoreSave(st, [session[1] EXCEPT !.last_active = now], now)

\* redis DEL session:{id}, or sessions.pop(id, None)
StoreDelSession(st, session_id) == [st EXCEPT !.sessions[session_id] = <<>>]

\* redis DEL messages:{id}, or messages.pop(id, None)
StoreDelMessages(st, session_id) == [st EXCEPT !.messages[session_id] = <<>>]

\* delete_session, as one call
delete_session(st, session_id) ==
    StoreDelMessages(StoreDelSession(st, session_id), session_id)

\* what delete_session returns when no command raises
DeleteResult(st, session_id) == TRUE

\* a call: what it leaves of store st, and what it returns
Outcome(st, c, now) ==
    CASE c.call = "get_or_create_session" ->
           LET after == get_or_create_session(st, c.session_id, now)
           IN  [after |-> after, result |-> StoreGet(after, c.session_id)]
      [] c.call = "store_message" ->
           [after  |-> store_message(st, c.session_id, c.id, c.is_user,
                                     [kind |-> "user_text", body |-> SafeMessage], now),
            result |-> c.id]
      [] c.call = "get_session_history" ->
           [after |-> st, result |-> get_session_history(st, c.session_id, c.limit)]
      [] c.call = "update_session_activity" ->
           [after |-> update_session_activity(st, c.session_id, now), result |-> None]
      [] c.call = "delete_session" ->
           [after  |-> delete_session(st, c.session_id),
            result |-> DeleteResult(st, c.session_id)]

\* the calls a caller can make next
CallsNow ==
    LET base(name) == [call |-> name, session_id |-> TheSession,
                       id |-> <<0, fnIn + 1>>, is_user |-> fnIn % 2 = 0, limit |-> 0]
    IN  {base(name) : name \in {"get_or_create_session", "store_message",
                                "update_session_activity", "delete_session"}}
        \cup {[base("get_session_history") EXCEPT !.limit = l] : l \in {0, 1, DEFAULT_LIMIT}}

InitCalls ==
    /\ store = [b \in Backends |-> EmptyStore(b)]
    /\ clock = 0
    /\ task = [t \in Tasks |-> IdleTask]
    /\ running = 0
    /\ fnIn = 0
    /\ fnOut = <<>>

Call ==
    /\ fnIn < MaxCalls
    /\ \E c \in CallsNow :
          LET out == [b \in Backends |-> Outcome(store[b], c, clock)]
          IN  /\ store' = [b \in Backends |-> out[b].after]
              /\ fnOut' = Some(c @@
                       [now    |-> clock,
                        before |-> store,
                        after  |-> store',
                        result |-> [b \in Backends |-> out[b].result]])
    /\ fnIn' = fnIn + 1
    /\ UNCHANGED <<clock, task, running>>

CallsTick ==
    /\ clock < MaxTick
    /\ clock' = clock + 1
    /\ store' = [b \in Backends |-> Expire(store[b], clock')]
    /\ UNCHANGED <<task, running, fnIn, fnOut>>

CallsSleep ==
    /\ clock + SESSION_TTL < (MaxSleeps + 1) * SESSION_TTL
    /\ clock' = clock + SESSION_TTL
    /\ store' = [b \in Backends |-> Expire(store[b], clock')]
    /\ UNCHANGED <<task, running, fnIn, fnOut>>

NextCalls == Call \/ CallsTick \/ CallsSleep

SpecCalls == InitCalls /\ [][NextCalls]_vars

\* the last call was `name`
LastCall(name) == fnOut # <<>> /\ fnOut[1].call = name

\* C11: delete_session returns true when a session with the id existed just
\* before the call, and false when none did (never created, or deleted).
C11_DeleteReportsExistence ==
    LastCall("delete_session") =>
        \A b \in Backends :
            fnOut[1].result[b]
                = (StoreGet(fnOut[1].before[b], fnOut[1].session_id) # <<>>)

-----------------------------------------------------------------------------
(* main.py : DELETE /sessions/{id} while chat requests are served.  The    *)
(* handler of the DELETE is one more process on the store; fnIn is its     *)
(* position and fnOut what delete_session returned.  With Redis its two    *)
(* DEL commands are two steps; with the in-process store the handler holds *)
(* the event loop from its first step to its last.                         *)

\* the DELETE handler, as a holder of the event loop
Deleter == MaxTasks + 1

InitDelete ==
    /\ store \in {EmptyStore("redis"), EmptyStore("memory")}
    /\ clock = 0
    /\ task = [t \in Tasks |-> IdleTask]
    /\ running = 0
    /\ fnIn = "idle"
    /\ fnOut = <<>>

\* delete_session: the session record
DelSession ==
    /\ fnIn = "idle"
    /\ store.backend = "redis" \/ running = 0
    /\ store' = StoreDelSession(store, TheSession)
    /\ fnIn' = "del_messages"
    /\ running' = IF store.backend = "memory" THEN Deleter ELSE running
    /\ UNCHANGED <<clock, task, fnOut>>

\* delete_session: the message log, and the return
DelMessages ==
    /\ fnIn = "del_messages"
    /\ store' = StoreDelMessages(store, TheSession)
    /\ fnIn' = "done"
    /\ fnOut' = Some(DeleteResult(store, TheSession))
    /\ running' = IF store.backend = "memory" THEN 0 ELSE running
    /\ UNCHANGED <<clock, task>>

NextDelete ==
    \/ \E t \in Tasks :
          \/ Start(t) \/ GocGet(t) \/ GocSave(t)
          \/ SmPush(t) \/ SmTrim(t) \/ SmGet(t) \/ SmSave(t)
          \/ Hist(t) \/ TouchGet(t) \/ TouchSave(t)
    \/ DelSession
    \/ DelMessages

SpecDelete == InitDelete /\ [][NextDelete]_vars

\* every handler, the one of the DELETE included, has returned or not started
AllReturned == Quiescent /\ fnIn \in {"idle", "done"}

\* another handler can take a step now
OthersMayRun == \E t \in Tasks : MayRun(t)

\* C12: a delete removes the record and the log as one step.  No other
\* handler can find the record removed and the log still there; and once the
\* handlers have returned, no record is left without its messages.
C12_DeleteAtomic ==
    /\ (fnIn = "del_messages" /\ OthersMayRun) => store.messages[TheSession] = <<>>
    /\ AllReturned =>
          \A s \in SessionIds : StoreGet(store, s) # <<>> => store.messages[s] # <<>>

-----------------------------------------------------------------------------
(* Properties of the pipeline when the backend is unreachable              *)

\* C13: whether Redis is unreachable when the MemoryManager is built or at
\* a later store command, every request returns a normal response.
C13_BackendLossNotSurfaced ==
    \A t \in Tasks : task[t].pc = "done" => task[t].response.kind = "ok"

-----------------------------------------------------------------------------
(* Properties of the two backends side by side                             *)

\* C14: the same calls under the same clock return the same results from
\* the Redis backed store and from the in-process store.
C14_BackendsAgree ==
    fnOut # <<>> => fnOut[1].result["redis"] = fnOut[1].result["memory"]

\* the same, for the calls other than a history with limit 0, while no
\* session has been left alone for 24 hours
C14_AgreeBeforeExpiry ==
    (fnOut # <<>> /\ fnOut[1].now < SESSION_TTL
       /\ ~(fnOut[1].call = "get_session_history" /\ fnOut[1].limit = 0)) =>
        fnOut[1].result["redis"] = fnOut[1].result["memory"]

-----------------------------------------------------------------------------
(* Properties of the classifier on messages without a crisis keyword       *)

\* min(0.9, 0.3 k) in exact arithmetic, written as Python writes a float
ExactConfidence(k) ==
    CASE k = 0 -> "0.0"
      [] k = 1 -> "0.3"
      [] k = 2 -> "0.6"
      [] OTHER -> "0.9"

\* C15: a message with no crisis keyword and k warning patterns in it is
\* not a crisis; its level is DANGER for k >= 3, WARNING for k in 1..2 and
\* SAFE for k = 0, its confidence is min(0.9, 0.3 k), and its keywords are
\* the k patterns.
C15_WarningVerdict ==
    (fnOut # <<>> /\ CrisisPlaces(fnIn) = {}) =>
        LET k == Cardinality(WarningHits(fnIn))
        IN  /\ ~fnOut[1].is_crisis
            /\ fnOut[1].level = (IF k >= 3 THEN "danger"
                                 ELSE IF k >= 1 THEN "warning" ELSE "safe")
            /\ fnOut[1].confidence = ExactConfidence(k)
            /\ Len(fnOut[1].keywords) = k
            /\ {fnOut[1].keywords[i] : i \in DOMAIN fnOut[1].keywords}
                  = {AllWarningPatterns[i] : i \in WarningHits(fnIn)}

\* the same without the confidence of k = 3
C15_WarningVerdictButThree ==
    (fnOut # <<>> /\ CrisisPlaces(fnIn) = {}) =>
        LET k == Cardinality(WarningHits(fnIn))
        IN  /\ ~fnOut[1].is_crisis
            /\ fnOut[1].level = (IF k >= 3 THEN "danger"
                                 ELSE IF k >= 1 THEN "warning" ELSE "safe")
            /\ k # 3 => fnOut[1].confidence = ExactConfidence(k)
            /\ Len(fnOut[1].keywords) = k
            /\ {fnOut[1].keywords[i] : i \in DOMAIN fnOut[1].keywords}
                  = {AllWarningPatterns[i] : i \in WarningHits(fnIn)}

-----------------------------------------------------------------------------
(* safety.py : get_crisis_response applied to the verdict of a message.    *)
(* fnOut is the verdict, then the verdict and the bundle.                  *)

Resolve ==
    /\ Len(fnOut) = 1
    /\ fnOut' = Append(fnOut, get_crisis_response(fnOut[1]))
    /\ UNCHANGED <<store, clock, task, running, fnIn>>

NextResolve == Classify \/ Resolve

SpecResolve == InitClassify /\ [][NextResolve]_vars

\* C16: get_crisis_response returns the bundle of the verdict's category
\* when the bundle table has it, and the default bundle when the table has
\* not or when the verdict has no category.
C16_BundleOfCategory ==
    Len(fnOut) = 2 =>
        fnOut[2] = IF fnOut[1].crisis_type \in BundleCategories
                   THEN Bundle(fnOut[1].crisis_type)
                   ELSE Bundle("default")

\* the same for the verdicts that have a category
C16_BundleOfPresentCategory ==
    (Len(fnOut) = 2 /\ fnOut[1].crisis_type # None) =>
        fnOut[2] = IF fnOut[1].crisis_type \in BundleCategories
                   THEN Bundle(fnOut[1].crisis_type)
                   ELSE Bundle("default")

-----------------------------------------------------------------------------
(* therapist.py : generate_response applied to a message, its verdict and  *)
(* a chat history.  fnIn is the message and the history, fnOut the         *)
(* ChatResponse.                                                           *)

\* the length of a history of an ongoing conversation (more than 5 entries)
LongHistory == 6

LongStory == Tok("a long story of eleven words told to fill the message", FALSE)

ComposeMessages ==
    {m \in Messages : Len(m) <= 2}
        \cup {Append(m, LongStory) : m \in {x \in Messages : Len(x) <= 1}}

\* a history of n entries, as get_session_history returns them
HistoryOf(n) ==
    [i \in 1..n |->
        to_dict(ChatMessage(<<0, i>>, TheSession, i % 2 = 1,
                            [kind |-> "user_text", body |-> SafeMessage], 0))]

InitCompose ==
    /\ store = EmptyStore("memory")
    /\ clock = 0
    /\ task = [t \in Tasks |-> IdleTask]
    /\ running = 0
    /\ fnIn \in [message : ComposeMessages,
                 chat_history : {HistoryOf(0), HistoryOf(LongHistory - 1),
                                 HistoryOf(LongHistory)}]
    /\ fnOut = <<>>

Compose ==
    /\ fnOut = <<>>
    /\ LET safety_context == analyze_message(fnIn.message)
       IN  \E style \in StyleChoices(safety_context.level, fnIn.chat_history) :
              fnOut' = Some(generate_response(fnIn.message, safety_context,
                                              fnIn.chat_history, style))
    /\ UNCHANGED <<store, clock, task, running, fnIn>>

SpecCompose == InitCompose /\ [][Compose]_vars

\* component c is among the selected ones
Selected(r, c) == \E i \in DOMAIN r.response_components : r.response_components[i] = c

\* C17: for a SAFE verdict "empathy" is never selected; a SAFE message of
\* more than 10 words on a new session gets "exploration" and the style
\* SUPPORTIVE.
C17_EmpathyOnlyAboveSafe ==
    (fnOut # <<>> /\ fnOut[1].safety_level = "safe") =>
        /\ ~Selected(fnOut[1], "empathy")
        /\ (WordCount(fnIn.message) > 10 /\ fnIn.chat_history = <<>>) =>
              /\ Selected(fnOut[1], "exploration")
              /\ fnOut[1].therapy_style = "supportive"

\* the second half alone
C17_LongSafeMessage ==
    (fnOut # <<>> /\ fnOut[1].safety_level = "safe"
       /\ WordCount(fnIn.message) > 10 /\ fnIn.chat_history = <<>>) =>
        /\ Selected(fnOut[1], "exploration")
        /\ ~Selected(fnOut[1], "empathy")
        /\ fnOut[1].therapy_style = "supportive"

-----------------------------------------------------------------------------
(* Properties of single store calls                                        *)

\* C18: update_session_activity on an existing session changes last_active,
\* to the current time, and nothing else of the record or of the log; on an
\* absent id it creates neither a record nor a log.
C18_TouchFrame ==
    LastCall("update_session_activity") =>
        \A b \in Backends :
            LET before == fnOut[1].before[b]
                after  == fnOut[1].after[b]
                old    == StoreGet(before, fnOut[1].session_id)
            IN  /\ after.messages = before.messages
                /\ \A s \in SessionIds \ {fnOut[1].session_id} :
                       StoreGet(after, s) = StoreGet(before, s)
                /\ StoreGet(after, fnOut[1].session_id) =
                       IF old = <<>> THEN <<>>
                       ELSE Some([old[1] EXCEPT !.last_active = fnOut[1].now])

\* C18 witness: a touch, after a pause of 24 hours, of a session with a
\* message: the Redis session has expired and is not created again, the
\* in-process one gets the new last_active.
C18_Witness ==
    /\ LastCall("update_session_activity")
    /\ StoreGet(fnOut[1].before["redis"], fnOut[1].session_id) = <<>>
    /\ fnOut[1].before["redis"].messages[fnOut[1].session_id] # <<>>
    /\ StoreGet(fnOut[1].before["memory"], fnOut[1].session_id) # <<>>
    /\ StoreGet(fnOut[1].before["memory"], fnOut[1].session_id)[1].message_count >= 1
    /\ StoreGet(fnOut[1].before["memory"], fnOut[1].session_id)[1].last_active
          < fnOut[1].now
    /\ StoreGet(fnOut[1].after["memory"], fnOut[1].session_id)[1].last_active
          = fnOut[1].now

-----------------------------------------------------------------------------
(* Properties of store_message within a request served alone               *)

\* handler t is the only one that has started
Alone(t) == \A u \in Tasks \ {t} : task[u].pc = "idle"

\* a store_message call of handler t has just returned
JustStored(t) ==
    /\ task[t].stored >= 1
    /\ \/ task[t].pc \in {"hist", "touch_get"}
       \/ task[t].pc = "sm_push" /\ task[t].phase = "crisis"

\* the newest entry of the log of handler t's session
Newest(t) == store.messages[task[t].session_id][1]

\* C19: when store_message returns, the message is the most recent entry
\* of the log, the session's message_count is one more than before the call
\* (here: the number of calls, from 0), and its last_active is the
\* timestamp of the message.
C19_StoreMessageEffect ==
    \A t \in Tasks :
        (Alone(t) /\ JustStored(t)) =>
            LET session == StoreGet(store, task[t].session_id)[1]
            IN  /\ Newest(t).id[1] = t
                /\ Newest(t).content = task[t].pushed[Len(task[t].pushed)].content
                /\ session.message_count = task[t].stored
                /\ session.last_active = Newest(t).timestamp

\* the same with a last_active that is not before the timestamp
C19_StoreMessageEffectLater ==
    \A t \in Tasks :
        (Alone(t) /\ JustStored(t)) =>
            LET session == StoreGet(store, task[t].session_id)[1]
            IN  /\ Newest(t).id[1] = t
                /\ Newest(t).content = task[t].pushed[Len(task[t].pushed)].content
                /\ session.message_count = task[t].stored
                /\ session.last_active >= Newest(t).timestamp

-----------------------------------------------------------------------------
(* main.py : websocket_endpoint, one connection.  fnIn is the connection:  *)
(* its state and the number of frames received; fnOut is the sequence of   *)
(* frames sent.  The loop of the endpoint is inside the try: an exception  *)
(* leaves the loop, the handler sends the error frame and returns.         *)

MaxFrames == 4

WarningMessage == << Tok("very sad", FALSE) >>

\* the well-formed messages a client sends
WsMessages == RequestMessages \cup {WarningMessage}

ErrorFrame == [type |-> "error"]

InitWs ==
    /\ store \in {EmptyStore("redis"), EmptyStore("memory")}
    /\ clock = 0
    /\ task = [t \in Tasks |-> IdleTask]
    /\ running = 0
    /\ fnIn = [state |-> "open", received |-> 0]
    /\ fnOut = <<>>

\* the loop is waiting in receive_json
Receiving == fnIn.state = "open" /\ fnIn.received < MaxFrames

\* an endpoint that stores the message and the answer as chat_endpoint does
WsMessageStoring ==
    /\ Receiving
    /\ \E message \in WsMessages :
          LET safety_result == analyze_message(message)
              k       == fnIn.received + 1
              created == get_or_create_session(store, TheSession, clock)
              stored  == store_message(created, TheSession, <<k, "ws_user">>, TRUE,
                                       [kind |-> "user_text", body |-> message], clock)
          IN  IF safety_result.is_crisis
              THEN LET crisis_response == get_crisis_response(safety_result)
                   IN  /\ fnOut' = Append(fnOut, [type      |-> "crisis_response",
                                                  message   |-> crisis_response.message,
                                                  resources |-> crisis_response.resources])
                       /\ store' = store_message(stored, TheSession, <<k, "ws_crisis">>,
                                                 FALSE, crisis_response.message, clock)
              ELSE LET chat_history ==
                           get_session_history(stored, TheSession, DEFAULT_LIMIT)
                   IN  \E style \in StyleChoices(safety_result.level, chat_history) :
                          LET reply == generate_response(message, safety_result,
                                                         chat_history, style)
                          IN  /\ fnOut' = Append(fnOut, [type    |-> "response",
                                                         message |-> reply.message])
                              /\ store' = store_message(stored, TheSession,
                                              <<k, "ws_reply">>, FALSE, reply.message, clock)
    /\ fnIn' = [fnIn EXCEPT !.received = @ + 1]
    /\ UNCHANGED <<clock, task, running>>

\* a well-formed message is received and answered
WsMessage ==
    /\ Receiving
    /\ \E message \in WsMessages :
          LET safety_result == analyze_message(message)
          IN  IF safety_result.is_crisis
              THEN LET crisis_response == get_crisis_response(safety_result)
                   IN  fnOut' = Append(fnOut, [type      |-> "crisis_response",
                                               message   |-> crisis_response.message,
                                               resources |-> crisis_response.resources])
              ELSE LET chat_history ==
                           get_session_history(store, TheSession, DEFAULT_LIMIT)
                   IN  \E style \in StyleChoices(safety_result.level, chat_history) :
                          fnOut' = Append(fnOut,
                                     [type    |-> "response",
                                      message |-> generate_response(message, safety_result,
                                                      chat_history, style).message])
    /\ fnIn' = [fnIn EXCEPT !.received = @ + 1]
    /\ UNCHANGED <<store, clock, task, running>>

\* the except Exception clause: the error frame, and the endpoint returns
WsExcept ==
    /\ fnIn' = [state |-> "returned", received |-> fnIn.received + 1]
    /\ fnOut' = Append(fnOut, ErrorFrame)
    /\ UNCHANGED <<store, clock, task, running>>

\* a frame that is not JSON, or not a JSON object: receive_json or data.get raises
WsMalformed == Receiving /\ WsExcept

\* a well-formed message, and the LRANGE of get_session_history raises
WsFault == Receiving /\ store.backend = "redis" /\ WsExcept

\* the client closes the connection: WebSocketDisconnect
WsDisconnect ==
    /\ fnIn.state = "open"
    /\ fnIn' = [fnIn EXCEPT !.state = "disconnected"]
    /\ UNCHANGED <<store, clock, task, running, fnOut>>

NextWs == WsMessage \/ WsMalformed \/ WsFault \/ WsDisconnect

SpecWs == InitWs /\ [][NextWs]_vars

\* C20: after an error frame the channel is still open (until the client
\* closes it): the endpoint goes on receiving and answering.
C20_ErrorKeepsChannelOpen ==
    (\E i \in DOMAIN fnOut : fnOut[i] = ErrorFrame) => fnIn.state # "returned"

-----------------------------------------------------------------------------
(* Properties of the log across faults                                     *)

\* log `new` is log `old`, or `old` with one message pushed in front, in
\* both cases cut to the newest MAX_MESSAGES
PushedOrSame(old, new) ==
    \/ new = old
    \/ /\ new # <<>>
       /\ Tail(new) = (IF Len(old) >= MAX_MESSAGES
                       THEN SubSeq(old, 1, MAX_MESSAGES - 1) ELSE old)

\* C21: no step of a request, a failed one included, and no expiry removes
\* or alters an entry of a log: a log only gets new messages in front.
C21_AppendsKept ==
    [][\A s \in SessionIds : PushedOrSame(store.messages[s], store'.messages[s])]_vars

\* C21 witness: a request has stored its user message, failed in
\* get_session_history and returned the error; the message is in the log.
C21_Witness ==
    \E t \in Tasks :
        /\ task[t].pc = "done"
        /\ task[t].response.kind = "error"
        /\ task[t].stored = 1
        /\ task[t].calls[Len(task[t].calls)] = "get_session_history"
        /\ \E i \in DOMAIN store.messages[task[t].session_id] :
              store.messages[task[t].session_id][i].id = <<t, "user">>

-----------------------------------------------------------------------------
(* Properties of the therapy style                                         *)

TherapyStyles == {"supportive", "cbt", "solution_focused", "mindfulness"}

\* the styles a verdict of this level and a history of n entries can get
StylesFor(level, n) ==
    CASE level \in {"crisis", "danger"} -> {"supportive"}
      [] level = "warning" -> {"supportive", "cbt"}
      [] level = "safe" /\ n > 5 -> TherapyStyles
      [] OTHER -> {"supportive"}

-----------------------------------------------------------------------------
(* therapist.py : _select_response_components applied to a message, a      *)
(* level and a style, in every combination.  fnIn is the three arguments,  *)
(* fnOut the list returned.                                                *)

SafetyLevels == {"safe", "warning", "danger", "crisis"}

InitSelect ==
    /\ store = EmptyStore("memory")
    /\ clock = 0
    /\ task = [t \in Tasks |-> IdleTask]
    /\ running = 0
    /\ fnIn \in [message : ComposeMessages, level : SafetyLevels,
                 therapy_style : TherapyStyles]
    /\ fnOut = <<>>

Select ==
    /\ fnOut = <<>>
    /\ fnOut' = Some(select_response_components(fnIn.message, fnIn.level,
                                                 fnIn.therapy_style))
    /\ UNCHANGED <<store, clock, task, running, fnIn>>

SpecSelect == InitSelect /\ [][Select]_vars

\* the message has a negative-affect term in it, in any case of the letters
HasNegative(m) == \E i \in DOMAIN negative_words : OccursIn(m, negative_words[i])

\* the components the rules ask for, as a set
Asked(m, level, style) ==
    LET base ==
          (IF level # "safe" THEN {"empathy"} ELSE {})
            \cup (IF HasNegative(m) THEN {"validation"} ELSE {})
            \cup (IF WordCount(m) > 10 THEN {"exploration"} ELSE {})
            \cup (CASE style = "cbt" -> {"reframing"}
                    [] style = "solution_focused" -> {"exploration", "hope"}
                    [] style = "mindfulness" -> {"coping"}
                    [] OTHER -> {})
    IN  IF base = {} THEN {"empathy", "exploration"} ELSE base

\* the place of a component in the order of the rules
RuleOrder(c) ==
    CASE c = "empathy" -> 1
      [] c = "validation" -> 2
      [] c = "exploration" -> 3
      [] c = "reframing" -> 4
      [] c = "hope" -> 4
      [] c = "coping" -> 4

\* C23: the list returned is what the five rules ask for, in the order of
\* the rules, without duplicates, cut to its first 3: it is never empty,
\* has at most 3 entries, and starts with "empathy" when the level is not
\* SAFE.
C23_ComponentsByRules ==
    fnOut # <<>> =>
        LET r     == fnOut[1]
            asked == Asked(fnIn.message, fnIn.level, fnIn.therapy_style)
        IN  /\ Len(r) >= 1 /\ Len(r) <= 3
            /\ \A i, j \in DOMAIN r : i < j => RuleOrder(r[i]) < RuleOrder(r[j])
            /\ \A i \in DOMAIN r : r[i] \in asked
            /\ Len(r) = (IF Cardinality(asked) > 3 THEN 3 ELSE Cardinality(asked))
            /\ \A c \in asked :
                  (\E i \in DOMAIN r : r[i] = c)
                    \/ Cardinality({d \in asked : RuleOrder(d) < RuleOrder(c)}) >= 3
            /\ fnIn.level # "safe" => r[1] = "empathy"

\* C23 witness: four components asked for (level not SAFE, a negative term,
\* more than 10 words, CBT), three returned
C23_Witness ==
    /\ fnOut # <<>>
    /\ Cardinality(Asked(fnIn.message, fnIn.level, fnIn.therapy_style)) = 4
    /\ fnOut[1] = <<"empathy", "validation", "exploration">>

-----------------------------------------------------------------------------
(* Properties of the composed message                                      *)

-----------------------------------------------------------------------------
(* Properties of the keywords of a crisis verdict                          *)

\* the keywords of category c that occur in message m
KeywordsIn(m, c) ==
    {CrisisKeywords(c)[i] : i \in {j \in DOMAIN CrisisKeywords(c) :
                                      OccursIn(m, CrisisKeywords(c)[j])}}

\* C25: the keywords of a crisis verdict are all the keywords of the
\* matched category that occur in the message, and no other.
C25_AllKeywordsOfCategory ==
    (fnOut # <<>> /\ fnOut[1].is_crisis) =>
        {fnOut[1].keywords[i] : i \in DOMAIN fnOut[1].keywords}
            = KeywordsIn(fnIn, fnOut[1].crisis_type)

\* what holds instead: one keyword, of the matched category and in the message
C25_OneKeywordOfCategory ==
    (fnOut # <<>> /\ fnOut[1].is_crisis) =>
        /\ Len(fnOut[1].keywords) = 1
        /\ fnOut[1].keywords[1] \in KeywordsIn(fnIn, fnOut[1].crisis_type)

-----------------------------------------------------------------------------
(* Properties of the order of a history                                    *)

\* C26: two messages of a history are in the order of their appends (the
\* second part of an id counts the appends), also when their timestamps
\* are the same.
C26_AppendOrderKept ==
    fnOut # <<>> =>
        \A i, j \in DOMAIN fnOut[1].result :
            i < j => fnOut[1].result[i].id[2] < fnOut[1].result[j].id[2]

\* the same for two messages with different timestamps
C26_AppendOrderOfDistinctTimes ==
    fnOut # <<>> =>
        \A i, j \in DOMAIN fnOut[1].result :
            (i < j /\ fnOut[1].result[i].timestamp # fnOut[1].result[j].timestamp)
                => fnOut[1].result[i].id[2] < fnOut[1].result[j].id[2]

-----------------------------------------------------------------------------
(* Properties of the record and the log of a session, call after call      *)

\* C27: a session id with messages in its log has a session record, and the
\* record's message_count is at least the length of the log.
C27_LogHasRecord ==
    \A b \in Backends : \A s \in SessionIds :
        store[b].messages[s] # <<>> =>
            /\ StoreGet(store[b], s) # <<>>
            /\ StoreGet(store[b], s)[1].message_count >= Len(store[b].messages[s])

-----------------------------------------------------------------------------
(* main.py : chat_endpoint called for one session id, one request after    *)
(* the other, each request run to its end.  fnIn counts the requests: all  *)
(* of them, and those completed since the session record was created.      *)
(* fnOut is what the last request saw and returned.                        *)

MaxRequests == 5

\* the non-crisis branch of chat_endpoint, from the stored user message on
TherapyBranch(st, session_id, k, message, verdict, style, now) ==
    LET chat_history == get_session_history(st, session_id, DEFAULT_LIMIT)
        reply  == generate_response(message, verdict, chat_history, style)
        stored == store_message(st, session_id, <<k, "reply">>, FALSE,
                                reply.message, now)
    IN  [after        |-> update_session_activity(stored, session_id, now),
         chat_history |-> chat_history,
         response     |-> ChatResponseModel(reply.message, FALSE, verdict.level, <<>>)]

\* the crisis branch
CrisisBranch(st, session_id, k, verdict, now) ==
    LET crisis_response == get_crisis_response(verdict)
    IN  [after        |-> store_message(st, session_id, <<k, "crisis">>, FALSE,
                                        crisis_response.message, now),
         chat_history |-> <<>>,
         response     |-> ChatResponseModel(crisis_response.message, TRUE, "critical",
                                            Some(crisis_response.resources))]

InitSeq ==
    /\ store \in {EmptyStore("redis"), EmptyStore("memory")}
    /\ clock = 0
    /\ task = [t \in Tasks |-> IdleTask]
    /\ running = 0
    /\ fnIn = [total |-> 0, completed |-> 0]
    /\ fnOut = <<>>

\* one request, from get_or_create_session to the return
ChatRequest ==
    /\ fnIn.total < MaxRequests
    /\ \E message \in RequestMessages :
          LET k        == fnIn.total + 1
              earlier  == IF StoreGet(store, TheSession) = <<>> THEN 0
                          ELSE fnIn.completed
              created  == get_or_create_session(store, TheSession, clock)
              verdict  == analyze_message(message)
              stored   == store_message(created, TheSession, <<k, "user">>, TRUE,
                                        [kind |-> "user_text", body |-> message], clock)
              finish(out, style) ==
                  /\ store' = out.after
                  /\ fnIn' = [total |-> k, completed |-> earlier + 1]
                  /\ fnOut' = Some([earlier      |-> earlier,
                                    id           |-> <<k, "user">>,
                                    verdict      |-> verdict,
                                    therapy_style |-> style,
                                    chat_history |-> out.chat_history,
                                    response     |-> out.response])
          IN  IF verdict.is_crisis
              THEN finish(CrisisBranch(stored, TheSession, k, verdict, clock), None)
              ELSE \E style \in StyleChoices(verdict.level,
                           get_session_history(stored, TheSession, DEFAULT_LIMIT)) :
                      finish(TherapyBranch(stored, TheSession, k, message, verdict,
                                           style, clock), style)
    /\ UNCHANGED <<clock, task, running>>

SeqTick ==
    /\ clock < MaxTick
    /\ clock' = clock + 1
    /\ store' = Expire(store, clock')
    /\ UNCHANGED <<task, running, fnIn, fnOut>>

SeqSleep ==
    /\ clock + SESSION_TTL < (MaxSleeps + 1) * SESSION_TTL
    /\ clock' = clock + SESSION_TTL
    /\ store' = Expire(store, clock')
    /\ UNCHANGED <<task, running, fnIn, fnOut>>

NextSeq == ChatRequest \/ SeqTick \/ SeqSleep

SpecSeq == InitSeq /\ [][NextSeq]_vars

\* the last request took the non-crisis branch
Composed == fnOut # <<>> /\ ~fnOut[1].verdict.is_crisis

\* C28: the history given to generate_response has the user message of the
\* request in it and min(20, 2n + 1) entries, n being the number of requests
\* completed earlier in the session; so a SAFE message gets a style other
\* than SUPPORTIVE only when n >= 3.
C28_HistoryOfSession ==
    Composed =>
        LET n == fnOut[1].earlier
            h == fnOut[1].chat_history
        IN  /\ \E i \in DOMAIN h : h[i].id = fnOut[1].id
            /\ Len(h) = (IF 2 * n + 1 > DEFAULT_LIMIT THEN DEFAULT_LIMIT ELSE 2 * n + 1)
            /\ (fnOut[1].verdict.level = "safe"
                   /\ fnOut[1].therapy_style # "supportive") => n >= 3

\* the same for the requests made before any session can have expired
C28_HistoryBeforeExpiry ==
    (Composed /\ BeforeAnyExpiry) =>
        LET n == fnOut[1].earlier
            h == fnOut[1].chat_history
        IN  /\ \E i \in DOMAIN h : h[i].id = fnOut[1].id
            /\ Len(h) = (IF 2 * n + 1 > DEFAULT_LIMIT THEN DEFAULT_LIMIT ELSE 2 * n + 1)
            /\ (fnOut[1].verdict.level = "safe"
                   /\ fnOut[1].therapy_style # "supportive") => n >= 3

-----------------------------------------------------------------------------
(* Properties of the components of a style                                 *)

\* the component that belongs to a style
OwnComponent(style) ==
    CASE style = "cbt" -> "reframing"
      [] style = "solution_focused" -> "hope"
      [] style = "mindfulness" -> "coping"

\* C29: when the style is CBT, SOLUTION_FOCUSED or MINDFULNESS, the
\* components returned include the style's own component.
C29_StyleComponentKept ==
    (fnOut # <<>> /\ fnOut[1].therapy_style # "supportive") =>
        Selected(fnOut[1], OwnComponent(fnOut[1].therapy_style))

\* the same for the messages of at most 10 words
C29_StyleComponentOfShortMessage ==
    (fnOut # <<>> /\ fnOut[1].therapy_style # "supportive"
       /\ WordCount(fnIn.message) <= 10) =>
        Selected(fnOut[1], OwnComponent(fnOut[1].therapy_style))

-----------------------------------------------------------------------------
(* main.py : websocket_endpoint on a store that chat_endpoint has written  *)
(* to: the session of the connection has the two messages of one request.  *)

\* the store after one request of chat_endpoint for the session
StoreAfterChat(backend) ==
    LET created == get_or_create_session(EmptyStore(backend), TheSession, 0)
        verdict == analyze_message(SafeMessage)
        stored  == store_message(created, TheSession, <<1, "user">>, TRUE,
                                 [kind |-> "user_text", body |-> SafeMessage], 0)
    IN  TherapyBranch(stored, TheSession, 1, SafeMessage, verdict, "supportive", 0).after

InitWsAfterChat ==
    /\ store \in {EmptyStore(b) : b \in Backends} \cup {StoreAfterChat(b) : b \in Backends}
    /\ clock = 0
    /\ task = [t \in Tasks |-> IdleTask]
    /\ running = 0
    /\ fnIn = [state |-> "open", received |-> 0]
    /\ fnOut = <<>>

SpecWsAfterChat == InitWsAfterChat /\ [][NextWs]_vars

\* C30: no step of the streaming endpoint changes the store: no session is
\* created, no message appended, no message_count or last_active changed.
C30_StreamLeavesStore ==
    [][store' = store]_vars

\* a frame of this type has been sent
Sent(type) == \E i \in DOMAIN fnOut : fnOut[i].type = type

\* C30 witness: a connection on a session with two stored messages has
\* answered a crisis message and another one; the store has those two
\* messages and the message_count of the one request.
C30_Witness ==
    /\ Sent("crisis_response")
    /\ Sent("response")
    /\ StoreGet(store, TheSession) # <<>>
    /\ StoreGet(store, TheSession)[1].message_count = 2
    /\ Len(store.messages[TheSession]) = 2

====
